---- MODULE Spec2Model ----
(***************************************************************************)
(* Model of the Kubernetes authorization webhook of src/src/main.go:       *)
(* the subject classifier isPrivilegedSystemUser, the policy evaluator     *)
(* isRequestAuthorized and the HTTP handler returned by                    *)
(* CreateWebhookAuthorizer.                                                *)
(*                                                                         *)
(* Strings the code inspects character by character (users, namespaces)    *)
(* are sequences of one-character strings, so that regexp matching and     *)
(* strings.Split are computed as the Go library computes them. Strings     *)
(* the code only compares for equality (verbs, resources, reasons) are     *)
(* TLA+ strings.                                                           *)
(***************************************************************************)
EXTENDS Integers, Sequences, FiniteSets, TLC

VARIABLES
  protectedNamespaces,        \* []string captured by the handler closure
  additionalPrivilegedUsers,  \* []string captured by the handler closure
  opinionMode,                \* bool captured by the handler closure
  logLevel,                   \* int captured by the handler closure
  pc,                         \* position of the handler
  r,                          \* the *http.Request being handled
  sar,                        \* the decoded SubjectAccessReviewAPI
  authorized,                 \* first result of isRequestAuthorized
  denyReason,                 \* second result of isRequestAuthorized
  status,                     \* the SubjectAccessReviewStatus being built
  w,                          \* the http.ResponseWriter: code and body written
  out,                        \* lines printed on stdout while handling r
  answered,                   \* history: the requests this handler has returned
                              \* from, each with what it wrote
  other                       \* the locals of the handler call that runs in
                              \* another goroutine while this one is scheduled

vars == <<protectedNamespaces, additionalPrivilegedUsers, opinionMode, logLevel,
          pc, r, sar, authorized, denyReason, status, w, out, answered, other>>

config == <<protectedNamespaces, additionalPrivilegedUsers, opinionMode, logLevel>>

----------------------------------------------------------------------------
(* Bounds of the model *)

\* largest number of entries of protectedNamespaces
MaxProtected == 2
\* largest number of entries of additionalPrivilegedUsers
MaxPrivileged == 1
\* largest number of segments between colons of a generated user
MaxSegments == 3

----------------------------------------------------------------------------
(* Character strings *)

NL == "\n"
Colon == <<":">>

W_system == <<"s", "y", "s", "t", "e", "m">>
W_serviceaccount == <<"s", "e", "r", "v", "i", "c", "e", "a", "c", "c", "o", "u", "n", "t">>
W_anonymous == <<"a", "n", "o", "n", "y", "m", "o", "u", "s">>
W_kube_system == <<"k", "u", "b", "e", "-", "s", "y", "s", "t", "e", "m">>
W_openstack_system == <<"o", "p", "e", "n", "s", "t", "a", "c", "k", "-", "s", "y", "s", "t", "e", "m">>
W_all == <<"a", "l", "l">>
W_othernamespace == <<"o", "t", "h", "e", "r", "n", "a", "m", "e", "s", "p", "a", "c", "e">>
W_node == <<"n", "o", "d", "e">>
W_my_node == <<"m", "y", "-", "n", "o", "d", "e">>
W_kubernetes_admin == <<"k", "u", "b", "e", "r", "n", "e", "t", "e", "s", "-", "a", "d", "m", "i", "n">>
W_not_admin == <<"n", "o", "t", "-", "a", "d", "m", "i", "n">>
W_oidc == <<"o", "i", "d", "c">>
W_sa == <<"s", "a", "1">>
W_badregex == <<"[", "b", "a", "d">>
Empty == <<>>

\* the literal lit occurs in s at position i
HasAt(s, i, lit) ==
  /\ i + Len(lit) - 1 <= Len(s)
  /\ \A k \in 1..Len(lit) : s[i + k - 1] = lit[k]

\* regexp.MatchString for a pattern of the shape  lit.+  : unanchored, so the
\* literal may start anywhere in s, and "." matches any one character except
\* a newline (Go's default, no s flag), so one such character must follow it.
MatchString(lit, s) ==
  \E i \in 1..Len(s) :
    /\ HasAt(s, i, lit)
    /\ i + Len(lit) <= Len(s)
    /\ s[i + Len(lit)] # NL

RECURSIVE SplitFrom(_, _, _, _)
SplitFrom(s, sep, i, cur) ==
  IF i > Len(s) THEN <<cur>>
  ELSE IF s[i] = sep THEN <<cur>> \o SplitFrom(s, sep, i + 1, <<>>)
  ELSE SplitFrom(s, sep, i + 1, Append(cur, s[i]))

\* strings.Split(s, sep) for a one-character separator
Split(s, sep) == SplitFrom(s, sep, 1, <<>>)

\* slices.Contains
Contains(list, x) == \E i \in 1..Len(list) : list[i] = x

----------------------------------------------------------------------------
(* The subject classifier and the policy evaluator *)

readonlyVerbs == <<"get", "list", "watch", "proxy">>

\* the literal parts of the two compiled patterns, "system:.+" and
\* "system:serviceaccount:.+"
systemAccountRegex == W_system \o Colon

\* mutant: the service-account pattern is a copy of the generic one
serviceAccountRegex_CopyOfGeneric == W_system \o Colon

serviceAccountRegex == W_system \o Colon \o W_serviceaccount \o Colon

SystemAnonymous == W_system \o Colon \o W_anonymous

\* strings.Split(user, ":")[2] (Go indexes from 0)
serviceAccountNamespace(user) == Split(user, ":")[3]

\* mutant: the system:anonymous test is missing
isPrivilegedSystemUser_NoAnonymousCheck(user, pns) ==
  IF MatchString(serviceAccountRegex, user)
    THEN Contains(pns, serviceAccountNamespace(user))
  ELSE IF MatchString(systemAccountRegex, user) THEN TRUE
  ELSE FALSE

isPrivilegedSystemUser(user, pns) ==
  IF user = SystemAnonymous THEN FALSE
  ELSE IF MatchString(serviceAccountRegex, user)
    THEN Contains(pns, serviceAccountNamespace(user))
  ELSE IF MatchString(systemAccountRegex, user) THEN TRUE
  ELSE FALSE

\* a pointer field is a sequence: <<>> is nil, <<v>> points to v
IsNil(p) == p = <<>>
Deref(p) == p[1]

isPrivilegedUser(s, apu) == Contains(apu, s.Spec.User)
\* mutant: a service account is privileged only for requests that target
\* its own namespace
isPrivilegedSystemUserVar_OwnNamespace(s, pns) ==
  /\ ~IsNil(s.Spec.ResourceAttributes)
  /\ isPrivilegedSystemUser(s.Spec.User, pns)
  /\ (MatchString(serviceAccountRegex, s.Spec.User)
        => serviceAccountNamespace(s.Spec.User) = Deref(s.Spec.ResourceAttributes).Namespace)

isPrivilegedSystemUserVar(s, pns) ==
  ~IsNil(s.Spec.ResourceAttributes) /\ isPrivilegedSystemUser(s.Spec.User, pns)
isProtectedNamespace(s, pns) ==
  ~IsNil(s.Spec.ResourceAttributes)
    /\ Contains(pns, Deref(s.Spec.ResourceAttributes).Namespace)
isSecret(s) ==
  ~IsNil(s.Spec.ResourceAttributes) /\ Deref(s.Spec.ResourceAttributes).Resource = "secrets"
isReadonlyVerb(s) ==
  ~IsNil(s.Spec.ResourceAttributes)
    /\ Contains(readonlyVerbs, Deref(s.Spec.ResourceAttributes).Verb)
\* mutant: a request without resourceAttributes counts as one for all
\* namespaces
isAllNamespaceRequest_NilIsAll(s) ==
  IsNil(s.Spec.ResourceAttributes)
    \/ Deref(s.Spec.ResourceAttributes).Namespace = Empty
    \/ Deref(s.Spec.ResourceAttributes).Namespace = W_all

\* mutant: the namespace "all" is not tested
isAllNamespaceRequest_EmptyOnly(s) ==
  ~IsNil(s.Spec.ResourceAttributes) /\ Deref(s.Spec.ResourceAttributes).Namespace = Empty

isAllNamespaceRequest(s) ==
  ~IsNil(s.Spec.ResourceAttributes)
    /\ (Deref(s.Spec.ResourceAttributes).Namespace = Empty
        \/ Deref(s.Spec.ResourceAttributes).Namespace = W_all)
\* mutant: the wildcard resource is compared with the wrong literal
isAllResourceRequest_WrongLiteral(s) ==
  ~IsNil(s.Spec.ResourceAttributes) /\ Deref(s.Spec.ResourceAttributes).Resource = "all"

isAllResourceRequest(s) ==
  ~IsNil(s.Spec.ResourceAttributes) /\ Deref(s.Spec.ResourceAttributes).Resource = "*"

\* mutant: the allow-list is consulted after the all-namespace rule
isRequestAuthorized_AllowListSecond(s, pns, apu) ==
  IF ~isPrivilegedSystemUserVar(s, pns) /\ isAllNamespaceRequest(s)
    THEN <<FALSE, "Cannot make all namespace requests">>
  ELSE IF isPrivilegedUser(s, apu) THEN <<TRUE, "">>
  ELSE IF isProtectedNamespace(s, pns) /\ ~isPrivilegedSystemUserVar(s, pns)
          /\ isAllResourceRequest(s)
    THEN <<FALSE, "Cannot make all resource requests in protected namespace">>
  ELSE IF isProtectedNamespace(s, pns) /\ ~isPrivilegedSystemUserVar(s, pns) /\ isSecret(s)
    THEN <<FALSE, "Cannot access secrets in protected namespace">>
  ELSE IF isProtectedNamespace(s, pns) /\ ~isPrivilegedSystemUserVar(s, pns)
          /\ ~isReadonlyVerb(s)
    THEN <<FALSE, "Cannot write to protected namespace">>
  ELSE <<TRUE, "">>

\* mutant: the write rule is tested before the secrets rule
isRequestAuthorized_WriteBeforeSecrets(s, pns, apu) ==
  IF isPrivilegedUser(s, apu) THEN <<TRUE, "">>
  ELSE IF ~isPrivilegedSystemUserVar(s, pns) /\ isAllNamespaceRequest(s)
    THEN <<FALSE, "Cannot make all namespace requests">>
  ELSE IF isProtectedNamespace(s, pns) /\ ~isPrivilegedSystemUserVar(s, pns)
          /\ isAllResourceRequest(s)
    THEN <<FALSE, "Cannot make all resource requests in protected namespace">>
  ELSE IF isProtectedNamespace(s, pns) /\ ~isPrivilegedSystemUserVar(s, pns)
          /\ ~isReadonlyVerb(s)
    THEN <<FALSE, "Cannot write to protected namespace">>
  ELSE IF isProtectedNamespace(s, pns) /\ ~isPrivilegedSystemUserVar(s, pns) /\ isSecret(s)
    THEN <<FALSE, "Cannot access secrets in protected namespace">>
  ELSE <<TRUE, "">>

\* the pair (authorized, denyReason)
isRequestAuthorized(s, pns, apu) ==
  IF isPrivilegedUser(s, apu) THEN <<TRUE, "">>
  ELSE IF ~isPrivilegedSystemUserVar(s, pns) /\ isAllNamespaceRequest(s)
    THEN <<FALSE, "Cannot make all namespace requests">>
  ELSE IF isProtectedNamespace(s, pns) /\ ~isPrivilegedSystemUserVar(s, pns)
          /\ isAllResourceRequest(s)
    THEN <<FALSE, "Cannot make all resource requests in protected namespace">>
  ELSE IF isProtectedNamespace(s, pns) /\ ~isPrivilegedSystemUserVar(s, pns) /\ isSecret(s)
    THEN <<FALSE, "Cannot access secrets in protected namespace">>
  ELSE IF isProtectedNamespace(s, pns) /\ ~isPrivilegedSystemUserVar(s, pns)
          /\ ~isReadonlyVerb(s)
    THEN <<FALSE, "Cannot write to protected namespace">>
  ELSE <<TRUE, "">>

----------------------------------------------------------------------------
(* The requests and the configurations the model draws from *)

Join2(a, b) == a \o Colon \o b
Join3(a, b, c) == a \o Colon \o b \o Colon \o c
Join4(a, b, c, d) == a \o Colon \o b \o Colon \o c \o Colon \o d

Users ==
  { SystemAnonymous,
    Join4(W_system, W_serviceaccount, W_kube_system, W_sa),
    Join4(W_system, W_serviceaccount, W_othernamespace, W_sa),
    Join4(W_system, W_serviceaccount, <<NL>> \o W_othernamespace, W_sa),
    Join4(W_system, W_serviceaccount, Empty, W_sa),
    Join3(W_system, W_serviceaccount, W_kube_system),
    Join2(W_system, W_serviceaccount),
    Join3(W_system, W_node, W_my_node),
    Join2(W_system, <<NL>>),
    Join2(W_system, Empty),
    Join3(W_oidc, W_system, W_node),
    W_kubernetes_admin,
    W_not_admin,
    Empty }

Namespaces == {Empty, W_all, W_kube_system, W_openstack_system}
Resources == {"secrets", "*", "pods"}
Verbs == {"get", "list", "proxy", "delete", "*"}

ResourceAttributesValues ==
  [namespace : Namespaces, verb : Verbs, resource : Resources]

\* the JSON object of a well-formed review: a resource request, or a
\* non-resource request
Payload(user, ra, nra) ==
  [kind |-> "SubjectAccessReview", apiVersion |-> "authorization.k8s.io/v1",
   spec |-> [user |-> user, resourceAttributes |-> ra, nonResourceAttributes |-> nra,
             groups |-> <<"system:authenticated">>],
   status |-> [allowed |-> FALSE]]

NonResource == <<[path |-> "/healthz", verb |-> "get"]>>

\* the resource attributes of the input tests, and a write elsewhere
SecretsRead == [namespace |-> W_kube_system, verb |-> "get", resource |-> "secrets"]
PodsDelete == [namespace |-> W_openstack_system, verb |-> "delete", resource |-> "pods"]

\* reviews of another kind or API version, and a review with an empty spec
MislabelledPayloads ==
  { [Payload(W_kubernetes_admin, <<SecretsRead>>, <<>>)
       EXCEPT !.kind = "NotASubjectAccessReview"],
    [Payload(W_kubernetes_admin, <<SecretsRead>>, <<>>) EXCEPT !.apiVersion = "v0"],
    [Payload(Empty, <<>>, <<>>) EXCEPT !.spec.groups = <<>>] }

\* reviews that differ in the fields isRequestAuthorized does not read: the
\* incoming status.allowed, the groups, nonResourceAttributes beside
\* resourceAttributes
VariedPayloads ==
  { [Payload(u, ra, nra) EXCEPT !.status.allowed = a, !.spec.groups = g] :
      u \in {SystemAnonymous, W_not_admin},
      ra \in {<<>>, <<SecretsRead>>, <<PodsDelete>>},
      nra \in {<<>>, NonResource},
      a \in BOOLEAN,
      g \in {<<>>, <<"system:authenticated">>} }

Payloads ==
  { Payload(u, <<ra>>, <<>>) : u \in Users, ra \in ResourceAttributesValues }
    \cup { Payload(u, <<>>, NonResource) : u \in Users }
    \cup MislabelledPayloads
    \cup VariedPayloads

\* a request body: JSON text that decodes, text that is no JSON, JSON with a
\* field of the wrong type; or a body that cannot be read at all
Bodies ==
  { [syntax |-> "ok", json |-> <<p>>] : p \in Payloads }
    \cup { [syntax |-> sx, json |-> <<>>] : sx \in {"bad json", "bad type"} }

Requests ==
  { [readable |-> TRUE, body |-> b] : b \in Bodies }
    \cup { [readable |-> FALSE, body |-> [syntax |-> "unreadable", json |-> <<>>]] }

\* the lists a configuration is built from: every choice of at most max
\* entries of pool, in the pool's order
Lists(pool, max) ==
  { SelectSeq(pool, LAMBDA x : x \in S) :
      S \in { T \in SUBSET { pool[i] : i \in 1..Len(pool) } : Cardinality(T) <= max } }

ProtectedPool == <<W_kube_system, W_openstack_system, Empty>>
PrivilegedPool == <<W_kubernetes_admin, SystemAnonymous>>
LogLevels == {0, 1, 2}

----------------------------------------------------------------------------
(* The handler returned by CreateWebhookAuthorizer *)

ZeroSar ==
  [Kind |-> "", APIVersion |-> "",
   Spec |-> [ResourceAttributes |-> <<>>, NonResourceAttributes |-> <<>>, User |-> Empty,
             Group |-> <<>>, Groups |-> <<>>],
   Status |-> [Allowed |-> FALSE, Denied |-> FALSE, Reason |-> ""]]

ZeroStatus == [Allowed |-> FALSE, Denied |-> FALSE, Reason |-> ""]

NoRequest == [readable |-> TRUE, body |-> [syntax |-> "none", json |-> <<>>]]

\* a ResponseWriter nothing was written to
FreshWriter == [Code |-> 0, Text |-> "", Review |-> <<>>]

\* the locals of a handler call that has not been given a request
NoCall ==
  [pc |-> "idle", r |-> NoRequest, sar |-> ZeroSar, authorized |-> FALSE,
   denyReason |-> "", status |-> ZeroStatus, w |-> FreshWriter, out |-> <<>>]

Line(text, result, reason) == [text |-> text, result |-> result, reason |-> reason]

Init ==
  /\ protectedNamespaces \in Lists(ProtectedPool, MaxProtected)
  /\ additionalPrivilegedUsers \in Lists(PrivilegedPool, MaxPrivileged)
  /\ opinionMode \in BOOLEAN
  /\ logLevel \in LogLevels
  /\ pc = "idle"
  /\ r = NoRequest
  /\ sar = ZeroSar
  /\ authorized = FALSE
  /\ denyReason = ""
  /\ status = ZeroStatus
  /\ w = FreshWriter
  /\ out = <<>>
  /\ answered = {}
  /\ other = NoCall

\* json.Decoder.Decode into a SubjectAccessReviewAPI: the keys of the JSON
\* object fill the struct fields of the same name, a key that is absent
\* leaves the zero value
Decode(p) ==
  [Kind |-> p.kind, APIVersion |-> p.apiVersion,
   Spec |-> [ResourceAttributes |->
               IF p.spec.resourceAttributes = <<>> THEN <<>>
               ELSE <<[Namespace |-> p.spec.resourceAttributes[1].namespace,
                       Verb |-> p.spec.resourceAttributes[1].verb,
                       Resource |-> p.spec.resourceAttributes[1].resource]>>,
             NonResourceAttributes |->
               IF p.spec.nonResourceAttributes = <<>> THEN <<>>
               ELSE <<[Path |-> p.spec.nonResourceAttributes[1].path,
                       Verb |-> p.spec.nonResourceAttributes[1].verb]>>,
             User |-> p.spec.user,
             Group |-> <<>>,
             Groups |-> p.spec.groups],
   Status |-> [Allowed |-> p.status.allowed, Denied |-> FALSE, Reason |-> ""]]

\* mutant: the dump is taken only where it is printed, at logLevel 2 and
\* above; below that a body that cannot be read gets as far as Decode
DumpRequest_OnlyWhenLogged(req) ==
  /\ pc = "idle"
  /\ r' = req
  /\ IF req.readable \/ logLevel < 2
       THEN /\ pc' = "dumped"
            /\ out' = <<>>
       ELSE /\ pc' = "done"
            /\ out' = <<Line("Error dumping request:", "", "")>>
  /\ UNCHANGED <<config, answered, other, sar, authorized, denyReason, status, w>>

\* the server calls the handler with a request; httputil.DumpRequest reads
\* the body, and the handler returns, having written nothing, when it fails
DumpRequest(req) ==
  /\ pc = "idle"
  /\ r' = req
  /\ IF req.readable
       THEN /\ pc' = "dumped"
            /\ out' = <<>>
       ELSE /\ pc' = "done"
            /\ out' = <<Line("Error dumping request:", "", "")>>
  /\ UNCHANGED <<config, answered, other, sar, authorized, denyReason, status, w>>

\* mutant: the error of Decode is not looked at and the handler goes on with
\* the zero value of sar
DecodeBody_IgnoresError ==
  /\ pc = "dumped"
  /\ sar' = IF r.body.syntax = "ok" THEN Decode(r.body.json[1]) ELSE ZeroSar
  /\ pc' = "decoded"
  /\ UNCHANGED <<config, answered, other, r, authorized, denyReason, status, w, out>>

\* json.NewDecoder(r.Body).Decode(&sar); an error is answered with 400
DecodeBody ==
  /\ pc = "dumped"
  /\ IF r.body.syntax = "ok"
       THEN /\ sar' = Decode(r.body.json[1])
            /\ pc' = "decoded"
            /\ UNCHANGED <<w, out>>
       ELSE /\ w' = [w EXCEPT !.Code = 400, !.Text = "JSON decoding error: "]
            /\ out' = Append(out, Line("JSON decoding error: ", "", ""))
            /\ pc' = "done"
            /\ UNCHANGED sar
  /\ UNCHANGED <<config, answered, other, r, authorized, denyReason, status>>

\* mutant: Allowed follows opinionMode even when the request is denied
RenderStatus_AllowedIgnoresDenied(auth, reason, opinion) ==
  [Allowed |-> opinion, Denied |-> ~auth,
   Reason |-> IF ~auth THEN reason
              ELSE IF ~opinion
                THEN "Webhook doesn't give opinion, delegated to other authorizers"
              ELSE ""]

\* mutant: the test of opinionMode is inverted
RenderStatus_OpinionInverted(auth, reason, opinion) ==
  IF ~auth THEN [Allowed |-> FALSE, Denied |-> TRUE, Reason |-> reason]
  ELSE IF opinion
    THEN [Allowed |-> FALSE, Denied |-> FALSE,
          Reason |-> "Webhook doesn't give opinion, delegated to other authorizers"]
  ELSE [Allowed |-> TRUE, Denied |-> FALSE, Reason |-> ""]

\* the status built from (authorized, denyReason) and opinionMode
RenderStatus(auth, reason, opinion) ==
  IF ~auth THEN [Allowed |-> FALSE, Denied |-> TRUE, Reason |-> reason]
  ELSE IF ~opinion
    THEN [Allowed |-> FALSE, Denied |-> FALSE,
          Reason |-> "Webhook doesn't give opinion, delegated to other authorizers"]
  ELSE [Allowed |-> TRUE, Denied |-> FALSE, Reason |-> ""]

\* mutant: the status is built on the status that came with the request, so
\* an incoming allowed=true stays
Evaluate_KeepsIncomingAllowed ==
  /\ pc = "decoded"
  /\ authorized' = isRequestAuthorized(sar, protectedNamespaces, additionalPrivilegedUsers)[1]
  /\ denyReason' = isRequestAuthorized(sar, protectedNamespaces, additionalPrivilegedUsers)[2]
  /\ status' = [RenderStatus(authorized', denyReason', opinionMode)
                  EXCEPT !.Allowed = @ \/ sar.Status.Allowed]
  /\ pc' = "rendered"
  /\ UNCHANGED <<config, answered, other, r, sar, w, out>>

\* isRequestAuthorized is called and the status is built from its results
Evaluate ==
  /\ pc = "decoded"
  /\ authorized' = isRequestAuthorized(sar, protectedNamespaces, additionalPrivilegedUsers)[1]
  /\ denyReason' = isRequestAuthorized(sar, protectedNamespaces, additionalPrivilegedUsers)[2]
  /\ status' = RenderStatus(authorized', denyReason', opinionMode)
  /\ pc' = "rendered"
  /\ UNCHANGED <<config, answered, other, r, sar, w, out>>

responseReview(st) ==
  [ApiVersion |-> "authorization.k8s.io/v1", Kind |-> "SubjectAccessReview", Status |-> st]

deniedLogOutput(st) == IF st.Denied THEN "Denied" ELSE "Allowed"

\* the lines the handler prints once the status is known
LogLines(level, s, st) ==
  (IF level >= 1 /\ ~IsNil(s.Spec.NonResourceAttributes)
     THEN <<Line("non-resource request", deniedLogOutput(st), st.Reason)>> ELSE <<>>)
  \o (IF level >= 1 /\ ~IsNil(s.Spec.ResourceAttributes)
        THEN <<Line("request", deniedLogOutput(st), st.Reason)>> ELSE <<>>)
  \o (IF level >= 2 THEN <<Line("HTTP Dump:", "", "")>> ELSE <<>>)

\* the logging and json.NewEncoder(w).Encode(responseReview)
Respond ==
  /\ pc = "rendered"
  /\ out' = out \o LogLines(logLevel, sar, status)
  /\ w' = [w EXCEPT !.Code = 200, !.Review = <<responseReview(status)>>]
  /\ pc' = "done"
  /\ UNCHANGED <<config, answered, other, r, sar, authorized, denyReason, status>>

\* mutant: the writer of the request before is handed to the next request
Forget_KeepsWriter ==
  /\ r' = NoRequest
  /\ sar' = ZeroSar
  /\ authorized' = FALSE
  /\ denyReason' = ""
  /\ status' = ZeroStatus
  /\ out' = <<>>
  /\ UNCHANGED w

\* the locals of a handler that has returned are gone: the next call has its
\* own sar and status, and the server gives it its own request and writer
Forget ==
  /\ r' = NoRequest
  /\ sar' = ZeroSar
  /\ authorized' = FALSE
  /\ denyReason' = ""
  /\ status' = ZeroStatus
  /\ w' = FreshWriter
  /\ out' = <<>>

\* the handler has returned and the server waits for the next request
Return ==
  /\ pc = "done"
  /\ pc' = "idle"
  /\ Forget
  /\ UNCHANGED <<config, answered, other>>

Next ==
  \/ \E req \in Requests : DumpRequest(req)
  \/ DecodeBody
  \/ Evaluate
  \/ Respond
  \/ Return

Spec == Init /\ [][Next]_vars

----------------------------------------------------------------------------
(* The handler called again and again, with what it answered kept *)

\* what the client of the request r has received
Answer == [request |-> r, code |-> w.Code, review |-> w.Review]

\* the requests sent again and again: two reviews that decode, a body that is
\* no JSON, one with a field of the wrong type, one that cannot be read
RepeatedRequests ==
  { [readable |-> TRUE,
     body |-> [syntax |-> "ok", json |-> <<Payload(SystemAnonymous, <<SecretsRead>>, <<>>)>>]],
    [readable |-> TRUE,
     body |-> [syntax |-> "ok", json |-> <<Payload(W_not_admin, <<PodsDelete>>, <<>>)>>]],
    [readable |-> TRUE, body |-> [syntax |-> "bad json", json |-> <<>>]],
    [readable |-> TRUE, body |-> [syntax |-> "bad type", json |-> <<>>]],
    [readable |-> FALSE, body |-> [syntax |-> "unreadable", json |-> <<>>]] }

\* the handler has returned; what it answered is noted
ReturnAnswered ==
  /\ pc = "done"
  /\ pc' = "idle"
  /\ Forget
  /\ answered' = answered \cup {Answer}
  /\ UNCHANGED <<config, other>>

NextRepeated ==
  \/ \E req \in RepeatedRequests : DumpRequest(req)
  \/ DecodeBody
  \/ Evaluate
  \/ Respond
  \/ ReturnAnswered

SpecRepeated == Init /\ [][NextRepeated]_vars

----------------------------------------------------------------------------
(* Two calls of the handler in two goroutines of the server *)

\* the locals of the call that is scheduled
Scheduled ==
  [pc |-> pc, r |-> r, sar |-> sar, authorized |-> authorized,
   denyReason |-> denyReason, status |-> status, w |-> w, out |-> out]

\* mutant: status is one variable of the package, shared by the two calls
Switch_SharedStatus ==
  /\ other' = Scheduled
  /\ pc' = other.pc
  /\ r' = other.r
  /\ sar' = other.sar
  /\ authorized' = other.authorized
  /\ denyReason' = other.denyReason
  /\ w' = other.w
  /\ out' = other.out
  /\ UNCHANGED <<config, answered, status>>

\* the scheduler takes the goroutine of the other call: each call has its
\* own r, sar, authorized, denyReason, status and w; the closure's four
\* parameters are the same for both
Switch ==
  /\ other' = Scheduled
  /\ pc' = other.pc
  /\ r' = other.r
  /\ sar' = other.sar
  /\ authorized' = other.authorized
  /\ denyReason' = other.denyReason
  /\ status' = other.status
  /\ w' = other.w
  /\ out' = other.out
  /\ UNCHANGED <<config, answered>>

NextConcurrent ==
  \/ \E req \in RepeatedRequests : DumpRequest(req)
  \/ DecodeBody
  \/ Evaluate
  \/ Respond
  \/ Return
  \/ Switch

SpecConcurrent == Init /\ [][NextConcurrent]_vars

----------------------------------------------------------------------------
(* The handler called with users of every shape *)

\* what stands between the colons of a generated user
UserSegments ==
  {W_system, W_serviceaccount, W_anonymous, W_kube_system, W_badregex, <<NL>>, Empty}

RECURSIVE JoinedUsers(_)
\* the users of exactly n segments
JoinedUsers(n) ==
  IF n = 1 THEN UserSegments
  ELSE { Join2(u, g) : u \in JoinedUsers(n - 1), g \in UserSegments }

GeneratedUsers == UNION { JoinedUsers(n) : n \in 1..MaxSegments }

\* each generated user asks to read secrets in kube-system
GeneratedRequests ==
  { [readable |-> TRUE,
     body |-> [syntax |-> "ok", json |-> <<Payload(u, <<SecretsRead>>, <<>>)>>]] :
      u \in GeneratedUsers }

\* every protectedNamespaces of Init, no allow-list, no opinion, no logging
InitUsers ==
  /\ Init
  /\ additionalPrivilegedUsers = <<>>
  /\ opinionMode = FALSE
  /\ logLevel = 0

NextUsers ==
  \/ \E req \in GeneratedRequests : DumpRequest(req)
  \/ DecodeBody
  \/ Evaluate
  \/ Respond
  \/ Return

SpecUsers == InitUsers /\ [][NextUsers]_vars

----------------------------------------------------------------------------
(* Vocabulary of the properties *)

\* isRequestAuthorized has run for the request r and the status is built
Evaluated == pc = "rendered" \/ (pc = "done" /\ w.Code = 200)

\* the response review has been written for the request r
Responded == pc = "done" /\ w.Code = 200

User == sar.Spec.User
HasAttributes == ~IsNil(sar.Spec.ResourceAttributes)
Attributes == Deref(sar.Spec.ResourceAttributes)

AllowListed == Contains(additionalPrivilegedUsers, User)

\* the subject is privileged neither by the allow-list nor as a system user
NotPrivileged ==
  ~AllowListed /\ ~isPrivilegedSystemUser(User, protectedNamespaces)

\* the written review, when there is one
Written == Deref(w.Review).Status

\* the user has the shape system:serviceaccount:<namespace>:<name>
IsServiceAccountIdentity(u) ==
  LET segments == Split(u, ":")
  IN  /\ Len(segments) >= 4
      /\ segments[1] = W_system
      /\ segments[2] = W_serviceaccount

\* the <namespace> of such a user
IdentityNamespace(u) == Split(u, ":")[3]

\* the user begins with lit and goes on after it
HasProperPrefix(u, lit) == HasAt(u, 1, lit) /\ Len(u) > Len(lit)

\* the user is "system:" and a non-empty suffix, is not system:anonymous and
\* does not begin as a service account does
IsGenericSystemIdentity(u) ==
  /\ HasProperPrefix(u, systemAccountRegex)
  /\ u # SystemAnonymous
  /\ ~HasProperPrefix(u, serviceAccountRegex)

NoOpinion == "Webhook doesn't give opinion, delegated to other authorizers"

\* the body of the request r is JSON that decodes into a review
Decodes == r.readable /\ r.body.syntax = "ok"

\* the review sent in the body of r, when it decodes
Sent == Deref(r.body.json)

\* what the handler writes for the request req, from the request and the
\* three parameters that are not logLevel: nothing when the dump fails, the
\* 400 of a Decode error, or the review of the status built
Response(req, pns, apu, opinion) ==
  IF ~req.readable THEN FreshWriter
  ELSE IF req.body.syntax # "ok"
    THEN [Code |-> 400, Text |-> "JSON decoding error: ", Review |-> <<>>]
  ELSE LET result == isRequestAuthorized(Decode(Deref(req.body.json)), pns, apu)
       IN  [Code |-> 200, Text |-> "",
            Review |-> <<responseReview(RenderStatus(result[1], result[2], opinion))>>]

\* the review s with nothing left in it but the user and the
\* resourceAttributes
Core(s) ==
  [Kind |-> "", APIVersion |-> "",
   Spec |-> [ResourceAttributes |-> s.Spec.ResourceAttributes,
             NonResourceAttributes |-> <<>>,
             User |-> s.Spec.User,
             Group |-> <<>>, Groups |-> <<>>],
   Status |-> ZeroStatus]

\* the handler is the DefaultAuthorizer of the tests
DefaultAuthorizer ==
  /\ protectedNamespaces = <<W_kube_system, W_openstack_system>>
  /\ additionalPrivilegedUsers = <<>>
  /\ opinionMode = FALSE
  /\ logLevel = 0

\* a review of another API version or kind, or one that names no user
Mislabelled(p) ==
  \/ p.apiVersion # "authorization.k8s.io/v1"
  \/ p.kind # "SubjectAccessReview"
  \/ p.spec.user = Empty

----------------------------------------------------------------------------
(* Properties of the policy evaluator *)

\* C1: a request of a user on additionalPrivilegedUsers is authorized, with
\* an empty reason, whatever its namespace, resource and verb, and whether
\* or not it has resourceAttributes.
C1_AllowListedAuthorized ==
  (Evaluated /\ AllowListed) => (authorized = TRUE /\ denyReason = "")

\* C1 witness: an allow-listed system:anonymous asks for every resource in
\* every namespace and is authorized.
C1_Witness ==
  /\ Evaluated /\ AllowListed /\ HasAttributes
  /\ User = SystemAnonymous
  /\ Attributes.Namespace = W_all /\ Attributes.Resource = "*"
  /\ authorized /\ denyReason = ""

\* C2: a request with resourceAttributes whose namespace is "" or "all", of
\* a subject that is not privileged, is denied: in the status built and in
\* the review written.
C2_AllNamespaceDenied ==
  (Evaluated /\ HasAttributes
     /\ Attributes.Namespace \in {Empty, W_all}
     /\ NotPrivileged)
    => (status.Denied /\ (Responded => Written.Denied))

\* C2 witness: a review denying a read of pods in namespace "all" has been
\* written, under a configuration that protects the namespace "".
C2_Witness ==
  /\ Responded /\ HasAttributes /\ NotPrivileged
  /\ Attributes.Namespace = W_all /\ Attributes.Resource = "pods"
  /\ Attributes.Verb = "get"
  /\ Contains(protectedNamespaces, Empty)
  /\ Written.Denied

\* C3: a request for the resource "*" in a protected namespace, of a subject
\* that is not privileged, is denied for every verb.
C3_AllResourceDenied ==
  (Evaluated /\ HasAttributes
     /\ Attributes.Resource = "*"
     /\ Contains(protectedNamespaces, Attributes.Namespace)
     /\ NotPrivileged)
    => (status.Denied /\ (Responded => Written.Denied))

\* C3 witness: a read-only verb on "*" in kube-system has been denied.
C3_Witness ==
  /\ Responded /\ HasAttributes /\ NotPrivileged
  /\ Attributes.Resource = "*" /\ Attributes.Verb = "proxy"
  /\ Attributes.Namespace = W_kube_system
  /\ Contains(protectedNamespaces, W_kube_system)
  /\ Written.Denied

\* C4: isPrivilegedSystemUser is false of system:anonymous under every
\* protectedNamespaces, and a system:anonymous that is not allow-listed is
\* denied secrets in a protected namespace.
C4_AnonymousNotPrivileged ==
  /\ ~isPrivilegedSystemUser(SystemAnonymous, protectedNamespaces)
  /\ (Evaluated /\ User = SystemAnonymous /\ ~AllowListed /\ HasAttributes
        /\ Attributes.Resource = "secrets"
        /\ Contains(protectedNamespaces, Attributes.Namespace))
       => status.Denied

\* C4 witness: system:anonymous has been denied a read of secrets in
\* kube-system.
C4_Witness ==
  /\ Evaluated /\ User = SystemAnonymous /\ ~AllowListed /\ HasAttributes
  /\ Attributes.Resource = "secrets" /\ Attributes.Verb = "get"
  /\ Attributes.Namespace = W_kube_system
  /\ Contains(protectedNamespaces, W_kube_system)
  /\ status.Denied

\* C5: a user system:serviceaccount:<namespace>:<name> is privileged exactly
\* when <namespace> is on protectedNamespaces, whatever namespace the
\* request targets: with <namespace> protected it is not denied in another
\* protected namespace, with <namespace> unprotected it is denied secrets in
\* a protected namespace.
C5_ServiceAccountIffProtected ==
  /\ IsServiceAccountIdentity(User)
       => (isPrivilegedSystemUser(User, protectedNamespaces)
             <=> Contains(protectedNamespaces, IdentityNamespace(User)))
  /\ (Evaluated /\ IsServiceAccountIdentity(User) /\ ~AllowListed /\ HasAttributes
        /\ Contains(protectedNamespaces, IdentityNamespace(User)))
       => ~status.Denied
  /\ (Evaluated /\ IsServiceAccountIdentity(User) /\ ~AllowListed /\ HasAttributes
        /\ ~Contains(protectedNamespaces, IdentityNamespace(User))
        /\ Contains(protectedNamespaces, Attributes.Namespace)
        /\ Attributes.Resource = "secrets")
       => status.Denied

\* C6 as stated: a service account of a protected namespace A is not
\* privileged for a request that targets another protected namespace B, so
\* a write or a secrets access in B is denied.
C6_OwnNamespaceOnly ==
  (Evaluated /\ IsServiceAccountIdentity(User) /\ ~AllowListed /\ HasAttributes
     /\ Contains(protectedNamespaces, IdentityNamespace(User))
     /\ Contains(protectedNamespaces, Attributes.Namespace)
     /\ Attributes.Namespace # IdentityNamespace(User)
     /\ (Attributes.Resource = "secrets" \/ ~Contains(readonlyVerbs, Attributes.Verb)))
    => status.Denied

\* C6 amended: a service account of a protected namespace is privileged for
\* every namespace a request targets, so no request of it that carries
\* resourceAttributes is denied, a write or a secrets access in another
\* protected namespace included.
C6_TrustedAcrossNamespaces ==
  (Evaluated /\ HasAttributes /\ IsServiceAccountIdentity(User)
     /\ Contains(protectedNamespaces, IdentityNamespace(User)))
    => (isPrivilegedSystemUser(User, protectedNamespaces) /\ ~status.Denied)

\* C6 witness: a service account of kube-system deletes secrets in
\* openstack-system, both protected, and is not denied.
C6_Witness ==
  /\ Evaluated /\ HasAttributes /\ ~AllowListed
  /\ User = Join4(W_system, W_serviceaccount, W_kube_system, W_sa)
  /\ Contains(protectedNamespaces, W_kube_system)
  /\ Contains(protectedNamespaces, W_openstack_system)
  /\ Attributes.Namespace = W_openstack_system
  /\ Attributes.Resource = "secrets" /\ Attributes.Verb = "delete"
  /\ ~status.Denied

\* C7: a user "system:" and a non-empty suffix that is neither
\* system:anonymous nor a service account is privileged, and no request of
\* it that carries resourceAttributes is denied.
C7_GenericSystemPrivileged ==
  /\ IsGenericSystemIdentity(User) => isPrivilegedSystemUser(User, protectedNamespaces)
  /\ (Evaluated /\ IsGenericSystemIdentity(User) /\ HasAttributes) => ~status.Denied

\* the decision table of C8, row by row, over the request being handled:
\* listed, privileged and protected are the derived booleans isAllowListed,
\* isPrivilegedIdentity and isProtectedNamespace
C8_Table(listed, privileged, protected) ==
  << [when |-> listed, allow |-> TRUE, reason |-> ""],
     [when |-> ~privileged /\ HasAttributes /\ Attributes.Namespace \in {Empty, W_all},
      allow |-> FALSE, reason |-> "Cannot make all namespace requests"],
     [when |-> protected /\ ~privileged /\ Attributes.Resource = "*",
      allow |-> FALSE,
      reason |-> "Cannot make all resource requests in protected namespace"],
     [when |-> protected /\ ~privileged /\ Attributes.Resource = "secrets",
      allow |-> FALSE, reason |-> "Cannot access secrets in protected namespace"],
     [when |-> protected /\ ~privileged
                 /\ Attributes.Verb \notin {"get", "list", "watch", "proxy"},
      allow |-> FALSE, reason |-> "Cannot write to protected namespace"],
     [when |-> TRUE, allow |-> TRUE, reason |-> ""] >>
C8_PrivilegedIdentity == HasAttributes /\ isPrivilegedSystemUser(User, protectedNamespaces)
C8_Protected == HasAttributes /\ Contains(protectedNamespaces, Attributes.Namespace)
C8_FirstMatch(table) ==
  table[CHOOSE i \in 1..Len(table) :
          table[i].when /\ \A j \in 1..(i - 1) : ~table[j].when]

\* C8: the pair (authorized, reason) is the outcome of the first row of the
\* six-row decision table that matches.
C8_DecisionTable ==
  Evaluated =>
    LET privileged == C8_PrivilegedIdentity
        table == C8_Table(AllowListed, privileged, C8_Protected)
        row == C8_FirstMatch(table)
    IN  authorized = row.allow /\ denyReason = row.reason

\* C8 witness: a delete of secrets in a protected namespace matches the
\* secrets row and the write row, and carries the reason of the secrets row.
C8_Witness ==
  /\ Evaluated /\ HasAttributes
  /\ Attributes.Namespace = W_kube_system
  /\ Attributes.Resource = "secrets" /\ Attributes.Verb = "delete"
  /\ Contains(protectedNamespaces, W_kube_system)
  /\ NotPrivileged
  /\ LET table == C8_Table(AllowListed, C8_PrivilegedIdentity, C8_Protected)
     IN  table[4].when /\ table[5].when
  /\ ~authorized /\ denyReason = "Cannot access secrets in protected namespace"

----------------------------------------------------------------------------
(* Properties of the rendered decision *)

\* C9: denied and allowed are never both true, in the status built and in
\* the review written; a denied decision has allowed=false and the reason
\* isRequestAuthorized gave.
C9_NeverDeniedAndAllowed ==
  /\ ~(status.Allowed /\ status.Denied)
  /\ (Evaluated /\ status.Denied)
       => (~authorized /\ ~status.Allowed /\ status.Reason = denyReason)
  /\ Responded
       => (~(Written.Allowed /\ Written.Denied)
           /\ (Written.Denied => (~Written.Allowed /\ Written.Reason = denyReason)))

\* C9 witness: with opinionMode on, a review denying a write to a protected
\* namespace has been written, with allowed=false.
C9_Witness ==
  /\ Responded /\ opinionMode
  /\ Written.Denied /\ ~Written.Allowed
  /\ Written.Reason = "Cannot write to protected namespace"

\* C10: allowed is true exactly when the request is authorized and
\* opinionMode is on; with opinionMode off no review has allowed=true and
\* every review that does not deny carries the no-opinion reason; with it on
\* every review that does not deny has allowed=true and an empty reason.
C10_AllowedIffAuthorizedAndOpinion ==
  /\ Evaluated => (status.Allowed <=> (authorized /\ opinionMode))
  /\ Responded => (Written.Allowed <=> (authorized /\ opinionMode))
  /\ (Responded /\ ~opinionMode)
       => (~Written.Allowed /\ (~Written.Denied => Written.Reason = NoOpinion))
  /\ (Responded /\ opinionMode /\ ~Written.Denied)
       => (Written.Allowed /\ Written.Reason = "")
  /\ (~opinionMode /\ ~IsNil(w.Review)) => ~Written.Allowed

\* C10 witness: with opinionMode off, a delete of pods in an unprotected
\* namespace by not-admin is answered allowed=false, denied=false and the
\* no-opinion reason.
C10_Witness ==
  /\ Responded /\ ~opinionMode /\ HasAttributes
  /\ User = W_not_admin
  /\ Attributes.Verb = "delete" /\ Attributes.Resource = "pods"
  /\ ~Contains(protectedNamespaces, Attributes.Namespace)
  /\ ~Written.Denied /\ ~Written.Allowed /\ Written.Reason = NoOpinion

----------------------------------------------------------------------------
(* Properties of the handling of the request body *)

\* C11: a decoded review whose apiVersion is not authorization.k8s.io/v1,
\* whose kind is not SubjectAccessReview or whose spec.user is empty is
\* answered 400 with no review written, and isRequestAuthorized is not run
\* for it.
C11_MislabelledRejected ==
  (Decodes /\ Mislabelled(Sent))
    => /\ pc # "rendered"
       /\ pc = "done" => (w.Code = 400 /\ IsNil(w.Review))

\* C12: a body that is not JSON, or whose fields have the wrong types, is
\* answered 400; isRequestAuthorized is not called for it, so its results
\* and the status keep their zero values, and no review is written.
C12_UndecodableRejected ==
  (r.readable /\ r.body.syntax \in {"bad json", "bad type"})
    => /\ pc \notin {"decoded", "rendered"}
       /\ sar = ZeroSar
       /\ authorized = FALSE /\ denyReason = "" /\ status = ZeroStatus
       /\ IsNil(w.Review)
       /\ pc = "done" => w.Code = 400

\* C12 witness: a body with a field of the wrong type has been answered 400
\* and the handler has returned without a review.
C12_Witness ==
  /\ pc = "done" /\ r.readable /\ r.body.syntax = "bad type"
  /\ w.Code = 400 /\ IsNil(w.Review)
  /\ status = ZeroStatus

\* C13: the answer depends on the request and the configuration only: a
\* request handled again by the same handler is answered as it was answered
\* before, with the same code and the same (denied, allowed, reason),
\* whatever was handled before it and between the two, bodies that were
\* rejected and bodies that could not be read included.
C13_SameRequestSameAnswer ==
  pc = "done"
    => \A earlier \in answered :
         earlier.request = r
           => (earlier.code = w.Code /\ earlier.review = w.Review)

\* C13 witness: a review denying system:anonymous is written a second time,
\* after the handler has answered a body that is no JSON, left a request
\* it could not read unanswered and given another request a review that
\* does not deny.
C13_Witness ==
  /\ Responded /\ Written.Denied
  /\ User = SystemAnonymous
  /\ \E earlier \in answered : earlier.request = r /\ earlier.review = w.Review
  /\ \E earlier \in answered :
       earlier.request.body.syntax = "bad json" /\ earlier.code = 400
  /\ \E earlier \in answered : ~earlier.request.readable /\ earlier.code = 0
  /\ \E earlier \in answered :
       earlier.code = 200 /\ ~Deref(earlier.review).Status.Denied

----------------------------------------------------------------------------
(* Properties of what the decision does not depend on *)

\* C14: logging does not affect the outcome: at logLevel 0, 1 and 2 alike,
\* the code written, the review written and the (denied, allowed, reason)
\* built for a request are those given by the request and the other three
\* parameters, also for a request whose dump cannot be produced.
C14_LogLevelIrrelevant ==
  LET response ==
        Response(r, protectedNamespaces, additionalPrivilegedUsers, opinionMode)
  IN  /\ pc = "done" => w = response
      /\ pc = "rendered" => status = Deref(response.Review).Status

\* C14 witness: at logLevel 2 a denial has been printed with the dump of
\* the request, and the review written is the one logLevel has no part in.
C14_Witness ==
  /\ Responded /\ logLevel = 2 /\ HasAttributes
  /\ Len(out) = 2 /\ out[1].result = "Denied" /\ out[2].text = "HTTP Dump:"
  /\ Written.Denied
  /\ w = Response(r, protectedNamespaces, additionalPrivilegedUsers, opinionMode)

----------------------------------------------------------------------------
(* Properties of the subject classifier on unusual users *)

\* C15: a user that begins as a service account does but has fewer than 3
\* segments between colons, such as "system:serviceaccount", is classified
\* not privileged, under every protectedNamespaces.
C15_MalformedServiceAccountNotPrivileged ==
  (HasAt(User, 1, Join2(W_system, W_serviceaccount)) /\ Len(Split(User, ":")) < 3)
    => ~isPrivilegedSystemUser(User, protectedNamespaces)

\* C18: isPrivilegedSystemUser is total: for every user, the empty one and
\* those with "[" or a newline in them included, it has a boolean value, and
\* whenever its service-account branch is taken strings.Split(user, ":")
\* has at least 3 elements, so that element [2] exists.
C18_ClassifierTotal ==
  /\ (User # SystemAnonymous /\ MatchString(serviceAccountRegex, User))
       => Len(Split(User, ":")) >= 3
  /\ isPrivilegedSystemUser(User, protectedNamespaces) \in BOOLEAN
  /\ Evaluated => (authorized \in BOOLEAN /\ authorized = ~status.Denied)

\* C18 witness: the service-account branch has been taken for
\* system:serviceaccount:[bad, whose namespace is not protected, and the
\* request for secrets in kube-system has been denied.
C18_Witness ==
  /\ Responded
  /\ User = Join3(W_system, W_serviceaccount, W_badregex)
  /\ MatchString(serviceAccountRegex, User)
  /\ serviceAccountNamespace(User) = W_badregex
  /\ ~isPrivilegedSystemUser(User, protectedNamespaces)
  /\ Contains(protectedNamespaces, W_kube_system)
  /\ Written.Denied

\* C19: a user that does not begin with "system:" is never classified
\* privileged, under any protectedNamespaces: only the allow-list exempts it.
C19_NoPrefixNotPrivileged ==
  ~HasAt(User, 1, systemAccountRegex)
    => ~isPrivilegedSystemUser(User, protectedNamespaces)

\* C16: kubernetes-admin is a required privileged user: the default
\* authorizer, whose additionalPrivilegedUsers is empty, does not deny a
\* request of kubernetes-admin for secrets in a protected namespace.
C16_RequiredUserNotDenied ==
  (DefaultAuthorizer /\ Evaluated /\ HasAttributes
     /\ User = W_kubernetes_admin
     /\ Attributes.Resource = "secrets"
     /\ Contains(protectedNamespaces, Attributes.Namespace))
    => (~status.Denied /\ (Responded => ~Written.Denied))

----------------------------------------------------------------------------
(* Properties of requests without resourceAttributes *)

\* C20: when resourceAttributes is absent every boolean derived from it is
\* false and the request is not denied: isRequestAuthorized gives
\* authorized=true and an empty reason for every user, system:anonymous and
\* users that are neither allow-listed nor system identities included.
C20_NoAttributesNeverDenied ==
  (Evaluated /\ ~HasAttributes)
    => /\ ~isPrivilegedSystemUserVar(sar, protectedNamespaces)
       /\ ~isProtectedNamespace(sar, protectedNamespaces)
       /\ ~isSecret(sar) /\ ~isReadonlyVerb(sar)
       /\ ~isAllNamespaceRequest(sar) /\ ~isAllResourceRequest(sar)
       /\ authorized = TRUE /\ denyReason = ""
       /\ ~status.Denied
       /\ Responded => ~Written.Denied

\* C20 witness: a non-resource request of system:anonymous, which is not
\* allow-listed, has been answered without a denial.
C20_Witness ==
  /\ Responded /\ ~HasAttributes
  /\ ~IsNil(sar.Spec.NonResourceAttributes)
  /\ User = SystemAnonymous /\ ~AllowListed
  /\ authorized /\ denyReason = ""
  /\ ~Written.Denied

----------------------------------------------------------------------------
(* Properties of concurrent calls *)

\* the call with locals h has built or written what the handler builds and
\* writes for its request when it is called alone
AsAlone(h) ==
  LET response ==
        Response(h.r, protectedNamespaces, additionalPrivilegedUsers, opinionMode)
  IN  /\ h.pc = "done" => h.w = response
      /\ h.pc = "rendered" => h.status = Deref(response.Review).Status

\* C21: when two requests are handled concurrently by one authorizer then,
\* under every interleaving of the steps of the two calls, each request is
\* answered as it is answered alone, and no step of either call changes
\* protectedNamespaces, additionalPrivilegedUsers, opinionMode or logLevel.
C21_ConcurrentAsAlone ==
  /\ [](AsAlone(Scheduled) /\ AsAlone(other))
  /\ [][UNCHANGED config]_vars

\* C21 witness: two calls have run side by side to the end: the scheduled
\* one has written a denial for system:anonymous, the other a review that
\* does not deny for not-admin, each the answer of its own request.
C21_Witness ==
  /\ Responded /\ other.pc = "done" /\ other.w.Code = 200
  /\ User = SystemAnonymous /\ other.sar.Spec.User = W_not_admin
  /\ Written.Denied
  /\ ~Deref(other.w.Review).Status.Denied
  /\ AsAlone(Scheduled) /\ AsAlone(other)

----------------------------------------------------------------------------
(* Properties of the paths through the handler *)

\* C22: a call of the handler that has come to its end has written exactly
\* one of two things: a 400 without a review, or a SubjectAccessReview of
\* apiVersion authorization.k8s.io/v1 that carries the status built; no
\* path, the one of a failed dump included, ends with neither written.
C22_ExactlyOneOutcome ==
  pc = "done"
    => \/ (w.Code = 400 /\ IsNil(w.Review))
       \/ /\ w.Code = 200 /\ ~IsNil(w.Review)
          /\ Deref(w.Review).ApiVersion = "authorization.k8s.io/v1"
          /\ Deref(w.Review).Kind = "SubjectAccessReview"
          /\ Deref(w.Review).Status = status

====
